---------------------------- MODULE Spec2Model ----------------------------
(***************************************************************************)
(* The UltraAgent command pipeline of VibeCode (src/cli/utils/progress.ts, *)
(* class UltraAgent, second definition) together with the part of          *)
(* ConfigManager it calls.  One behaviour is one `vibe <task>` command:    *)
(* execute -> analyzeIntent -> scanProject -> executeWithAI ->             *)
(* processResponse (display, confirmation, extraction, file operations).   *)
(*                                                                         *)
(* Text is modelled by its structure.  An AI response is a sequence of     *)
(* tokens (prose, a `File: <path>` label line, a backtick-quoted path, a   *)
(* language-tagged fenced block), each with its length in characters, so   *)
(* that positions, the 300 character look-back window and the 200          *)
(* character minimum are computed as the code computes them.  A path is a  *)
(* record of its directory segments, base name and extension.              *)
(***************************************************************************)
EXTENDS Integers, Sequences, FiniteSets, TLC

(***************************************************************************)
(* Program constants                                                       *)
(***************************************************************************)
MIN_CODE_LENGTH == 200

LOOKBACK == 300

MAX_CONTEXT_SIZE == 3000

CHARS_PER_TOKEN == 4

HISTORY_LIMIT == 100

(***************************************************************************)
(* Bounds of the model                                                     *)
(***************************************************************************)
\* longest AI response, in tokens
MaxTokens == 3

(***************************************************************************)
(* Paths                                                                   *)
(***************************************************************************)
\* the value of an `undefined` (or empty) path
NoPath == [dirs |-> <<>>, base |-> "", ext |-> "", sep |-> "/"]

P(dirs, base, ext) == [dirs |-> dirs, base |-> base, ext |-> ext, sep |-> "/"]

\* String.prototype.toLowerCase on the strings the model uses
ToLower(s) ==
  CASE s = "TS" -> "ts"
    [] s = "Y" -> "y"
    [] s = "S" -> "s"
    [] s = "YES" -> "yes"
    [] s = "Heap" -> "heap"
    [] OTHER -> s

\* number of characters of an extension (all are letters)
ExtLen(e) ==
  CASE e = "" -> 0
    [] e \in {"ts", "TS", "js", "md"} -> 2
    [] e \in {"tsx", "jsx", "css", "yml", "txt"} -> 3
    [] e \in {"json", "html", "scss", "yaml"} -> 4
    [] OTHER -> 5

\* process.cwd() == TerminalState.currentDir, as directory segments
currentDir == <<"home", "proj">>

\* path.join / path.normalize on directory segments: `..` pops, `.` is dropped
RECURSIVE Normalize(_, _)
Normalize(done, rest) ==
  IF rest = <<>> THEN done
  ELSE IF Head(rest) = ".."
       THEN Normalize(IF done = <<>> THEN <<>> ELSE SubSeq(done, 1, Len(done) - 1),
                      Tail(rest))
  ELSE IF Head(rest) = "." THEN Normalize(done, Tail(rest))
  ELSE Normalize(Append(done, Head(rest)), Tail(rest))

\* path.join(this.currentDir, filePath): an absolute location
Loc(dir, base, ext) == [dir |-> dir, base |-> base, ext |-> ext]

FullPath(p) == Loc(Normalize(currentDir, p.dirs), p.base, p.ext)

\* path.dirname(fullPath)
DirName(loc) == loc.dir


(***************************************************************************)
(* Code texts.  A text is named; its attributes are what the code reads    *)
(* from it: its length, the counts the validator compares, and the         *)
(* markers isCommandExample looks for.                                     *)
(***************************************************************************)
Attr(len, ob, cb, op, cp, defs, openComment, cmdPrefix, exampleMarker) ==
  [len |-> len, openBraces |-> ob, closeBraces |-> cb, openParens |-> op,
   closeParens |-> cp, defs |-> defs, openComment |-> openComment,
   cmdPrefix |-> cmdPrefix, exampleMarker |-> exampleMarker]

TextAttr(t) ==
  CASE t = "A"       -> Attr(250, 3, 3, 2, 2, TRUE, FALSE, FALSE, FALSE)
    [] t = "B"       -> Attr(400, 5, 5, 4, 4, TRUE, FALSE, FALSE, FALSE)
    [] t = "Braces"  -> Attr(300, 3, 2, 2, 2, TRUE, FALSE, FALSE, FALSE)
    [] t = "Parens"  -> Attr(300, 2, 2, 3, 2, TRUE, FALSE, FALSE, FALSE)
    [] t = "Comment" -> Attr(260, 1, 1, 1, 1, TRUE, TRUE, FALSE, FALSE)
    [] t = "Short"   -> Attr(150, 1, 1, 1, 1, TRUE, FALSE, FALSE, FALSE)
    [] t = "Edge"    -> Attr(199, 1, 1, 1, 1, TRUE, FALSE, FALSE, FALSE)
    [] t = "Npm"     -> Attr(220, 0, 0, 0, 0, FALSE, FALSE, TRUE, FALSE)
    [] t = "Example" -> Attr(240, 1, 1, 1, 1, TRUE, FALSE, FALSE, TRUE)
    [] t = "Old"     -> Attr(500, 2, 2, 2, 2, TRUE, FALSE, FALSE, FALSE)
    [] OTHER         -> Attr(0, 0, 0, 0, 0, FALSE, FALSE, FALSE, FALSE)

\* number of characters of a language tag
LangLen(l) ==
  CASE l = "typescript" -> 10
    [] l = "ts" -> 2
    [] l = "sh" -> 2
    [] OTHER -> 4

(***************************************************************************)
(* Response tokens                                                         *)
(***************************************************************************)
Tok(kind, path, lang, text, pad, len) ==
  [kind |-> kind, path |-> path, lang |-> lang, text |-> text, pad |-> pad, len |-> len]

\* prose of n characters holding no label and no backtick
Prose(n) == Tok("text", NoPath, "", "", 0, n)

\* the line `<word>: <path>` and its newline; word is File, Arquivo, Path or Caminho
Label(p, n) == Tok("label", p, "", "", 0, n)

\* the line "`<path>`" and its newline
Tick(p, n) == Tok("tick", p, "", "", 0, n)

\* ```<lang>\n<pad blanks><text>\n```\n
Fence(lang, text, pad) == Tok("fence", NoPath, lang, text, pad, 0)

\* characters a token takes in the response
TokLen(t) ==
  IF t.kind = "fence"
  THEN 3 + LangLen(t.lang) + 1 + t.pad + TextAttr(t.text).len + 1 + 3 + 1
  ELSE t.len

RECURSIVE SumLen(_, _)
SumLen(resp, n) == IF n = 0 THEN 0 ELSE SumLen(resp, n - 1) + TokLen(resp[n])

\* match.index of the fence that is token i: the characters before it
BlockIndex(resp, i) == SumLen(resp, i - 1)

\* response.length
ResponseLen(resp) == SumLen(resp, Len(resp))

Max(a, b) == IF a >= b THEN a ELSE b

Min(a, b) == IF a <= b THEN a ELSE b

(***************************************************************************)
(* extractPathBeforeBlock                                                  *)
(***************************************************************************)
\* match[1].trim().replace(/`/g, '').replace(/\\/g, '/')
NormalizePath(p) == [p EXCEPT !.sep = "/"]

\* the label pattern applied to the whole text before the block, not to the window
MatchesLabelPattern_NoWindow(resp, j, from) ==
  /\ resp[j].kind = "label"
  /\ resp[j].path.ext # ""

\* /(?:File|Arquivo|Path|Caminho):\s*`?([^\n`]+\.[a-zA-Z0-9]+)`?\s*$/im matches
\* the label line that is token j, inside the window that starts at `from`
MatchesLabelPattern(resp, j, from) ==
  /\ resp[j].kind = "label"
  /\ BlockIndex(resp, j) >= from
  /\ resp[j].path.ext # ""

\* /`([^`]+\.[a-zA-Z]{2,4})`\s*$/ matches: the window ends with a backtick-quoted
\* path (token i-1), followed by blanks only
MatchesTickPattern(resp, i, from) ==
  /\ i > 1
  /\ resp[i - 1].kind = "tick"
  /\ BlockIndex(resp, i - 1) >= from
  /\ ExtLen(resp[i - 1].path.ext) \in 2..4

\* the path the text before fence i names, or NoPath (undefined)
extractPathBeforeBlock(resp, i) ==
  LET from == Max(0, BlockIndex(resp, i) - LOOKBACK)
      labels == {j \in 1..(i - 1) : MatchesLabelPattern(resp, j, from)}
  IN  IF labels # {}
      THEN \* String.match without /g returns the leftmost match
           NormalizePath(resp[CHOOSE j \in labels : \A k \in labels : j <= k].path)
      ELSE IF MatchesTickPattern(resp, i, from)
      THEN NormalizePath(resp[i - 1].path)
      ELSE NoPath

(***************************************************************************)
(* isCommandExample, isValidCodeBlock, extractCodeBlocks                   *)
(***************************************************************************)
isCommandExample(text) ==
  TextAttr(text).cmdPrefix \/ TextAttr(text).exampleMarker

validExts == {"ts", "tsx", "js", "jsx", "json", "md", "html", "css", "scss", "yaml", "yml"}

suspiciousParts == {"heap", "stack", "memory", "buffer", "cache"}

\* path.includes('.')
HasDot(p) == p.ext # "" \/ \E k \in 1..Len(p.dirs) : p.dirs[k] \in {".", ".."}

\* path.includes('/')
HasSlash(p) == p.dirs # <<>>

\* path.split('/')[0].split('\\')[0].toLowerCase() is one of suspiciousParts
SuspiciousFirstPart(p) ==
  IF p.dirs # <<>> THEN ToLower(p.dirs[1]) \in suspiciousParts
  ELSE p.ext = "" /\ ToLower(p.base) \in suspiciousParts

\* isValidCodeBlock without the `!path` test: a block with no path passes
isValidCodeBlock_PathOptional(text, language, p) ==
  IF p = NoPath THEN TRUE
  ELSE IF ~HasDot(p) THEN FALSE
  ELSE IF p.ext = "" \/ ToLower(p.ext) \notin validExts THEN FALSE
  ELSE IF SuspiciousFirstPart(p) /\ ~HasSlash(p) THEN FALSE
  ELSE TRUE

\* isValidCodeBlock without the extension allow-list
isValidCodeBlock_AnyExt(text, language, p) ==
  IF p = NoPath \/ ~HasDot(p) THEN FALSE
  ELSE IF SuspiciousFirstPart(p) /\ ~HasSlash(p) THEN FALSE
  ELSE TRUE

isValidCodeBlock(text, language, p) ==
  IF p = NoPath \/ ~HasDot(p) THEN FALSE
  ELSE IF p.ext = "" \/ ToLower(p.ext) \notin validExts THEN FALSE
  ELSE IF SuspiciousFirstPart(p) /\ ~HasSlash(p) THEN FALSE
  ELSE TRUE

\* match[2].trim()
Trim(tok) == tok.text

\* the structural filter of extractCodeBlocks on the fence that is token i
PassesStructuralFilter(tok) ==
  /\ TextAttr(Trim(tok)).len >= MIN_CODE_LENGTH
  /\ ~isCommandExample(Trim(tok))

CodeBlock(code, language, path) ==
  [code |-> code, language |-> language, path |-> path,
   metadata |-> [charCount |-> TextAttr(code).len, hasFunctions |-> TextAttr(code).defs]]

\* the fence that is token i is returned by extractCodeBlocks
Accepts(resp, i) ==
  /\ resp[i].kind = "fence"
  /\ PassesStructuralFilter(resp[i])
  /\ isValidCodeBlock(Trim(resp[i]), resp[i].lang, extractPathBeforeBlock(resp, i))

RECURSIVE ExtractFrom(_, _)
ExtractFrom(resp, i) ==
  IF i > Len(resp) THEN <<>>
  ELSE IF Accepts(resp, i)
       THEN <<CodeBlock(Trim(resp[i]), resp[i].lang, extractPathBeforeBlock(resp, i))>>
            \o ExtractFrom(resp, i + 1)
       ELSE ExtractFrom(resp, i + 1)

extractCodeBlocks(resp) == ExtractFrom(resp, 1)

(***************************************************************************)
(* validateCode                                                            *)
(***************************************************************************)
\* the tags checked, with the short tags ts and js among them
ScriptLanguages_WithShortTags == {"typescript", "javascript", "tsx", "jsx", "ts", "js"}

\* language === 'typescript' || 'javascript' || 'tsx' || 'jsx'
ScriptLanguages == {"typescript", "javascript", "tsx", "jsx"}

\* a test that sees a surplus of opening characters only
Unequal_MoreOpen(open, close) == open > close

\* openBraces !== closeBraces, openParens !== closeParens
Unequal(open, close) == open # close

\* validateCode on a code with the attributes a
ValidateAttrs(a, language) ==
  LET checked == language \in ScriptLanguages
      braces == checked /\ Unequal(a.openBraces, a.closeBraces)
      parens == checked /\ Unequal(a.openParens, a.closeParens)
      comment == checked /\ a.openComment
  IN  [isValid |-> ~(braces \/ parens),
       isComplete |-> ~(braces \/ parens \/ comment),
       errors |-> (IF braces THEN <<"Unbalanced braces">> ELSE <<>>)
                  \o (IF parens THEN <<"Unbalanced parentheses">> ELSE <<>>)
                  \o (IF comment THEN <<"Incomplete comment block at end of file">> ELSE <<>>),
       warnings |-> (IF checked /\ ~a.defs /\ a.len > 100
                     THEN <<"No function or class definitions found">> ELSE <<>>)
                    \o (IF checked /\ a.len < MIN_CODE_LENGTH
                        THEN <<"Code is very short">> ELSE <<>>)]

validateCode(code, language) == ValidateAttrs(TextAttr(code), language)

(***************************************************************************)
(* Inputs: the commands typed, the responses the AI may give, the answers  *)
(* typed at the confirmation prompt                                        *)
(***************************************************************************)
AuthTs == P(<<>>, "auth", "ts")

SrcXTs == P(<<"src">>, "x", "ts")

UpXTs == P(<<"..">>, "x", "ts")

NotesTxt == P(<<>>, "notes", "txt")

\* a command: its length, the file name it mentions (NoPath: none), its words
Commands ==
  { [text |-> "fix the bug in auth.ts", len |-> 22, file |-> AuthTs,
     words |-> {"fix", "the", "bug", "in", "auth.ts"}],
    [text |-> "add a helper", len |-> 12, file |-> NoPath,
     words |-> {"add", "a", "helper"}] }

Tokens ==
  { Label(AuthTs, 14), Label(SrcXTs, 15), Label(UpXTs, 14), Label(NotesTxt, 16),
    Tick(SrcXTs, 11), Prose(300),
    Fence("typescript", "A", 0), Fence("ts", "B", 0),
    Fence("typescript", "Braces", 0), Fence("typescript", "Comment", 0),
    Fence("ts", "Edge", 2), Fence("sh", "Npm", 0) }

Responses == UNION { [1..n -> Tokens] : n \in 0..MaxTokens }

Answers == {"y", "S", "yes", "n", ""}

(***************************************************************************)
(* The file system                                                         *)
(***************************************************************************)
\* the content of a path that holds no file
Absent == "-"

LabelPaths == { t.path : t \in { u \in Tokens : u.kind \in {"label", "tick"} } }

Locations == { FullPath(p) : p \in LabelPaths \cup { c.file : c \in { d \in Commands : d.file # NoPath } } }

RECURSIVE Ancestors(_)
Ancestors(dir) ==
  IF dir = <<>> THEN { <<>> }
  ELSE { dir } \cup Ancestors(SubSeq(dir, 1, Len(dir) - 1))

\* the project at the start of the command: auth.ts exists, src/ does not
InitFiles == [l \in Locations |-> IF l = FullPath(AuthTs) THEN "Old" ELSE Absent]

InitDirs == Ancestors(currentDir)

\* fs.existsSync(fullPath)
existsSync(fls, loc) == fls[loc] # Absent

(***************************************************************************)
(* ConfigManager: .vibecoderc.json in the working directory                *)
(***************************************************************************)
InitRc == [exists |-> FALSE, totalTokens |-> 0, totalCost |-> 0, history |-> <<>>]

\* Math.ceil(text.length / 4)
estimateTokens(len) == (len + CHARS_PER_TOKEN - 1) \div CHARS_PER_TOKEN

\* the cost of `tokens` tokens for the default provider (openai), in 1e-7 dollars:
\* 70% input at $30 and 30% output at $60 per million
Cost(tokens) == tokens * (7 * 30 + 3 * 60)

\* history.slice(0, 100): the oldest entries are kept
LastEntries_Oldest(h) ==
  IF Len(h) > HISTORY_LIMIT THEN SubSeq(h, 1, HISTORY_LIMIT) ELSE h

\* history.slice(-100) once it holds more than 100 entries
LastEntries(h) ==
  IF Len(h) > HISTORY_LIMIT THEN SubSeq(h, Len(h) - HISTORY_LIMIT + 1, Len(h)) ELSE h

\* load, add the entry, save: the file after trackTokenUsage(tokens, 'ultra-agent')
trackTokenUsage(rc, tokens) ==
  [exists |-> TRUE,
   totalTokens |-> rc.totalTokens + tokens,
   totalCost |-> rc.totalCost + Cost(tokens),
   history |-> LastEntries(Append(rc.history,
                 [tokens |-> tokens, cost |-> Cost(tokens), command |-> "ultra-agent"]))]

(***************************************************************************)
(* analyzeIntent, readTargetFile, buildPrompt                              *)
(***************************************************************************)
\* the keys of actionPatterns
ActionNames == {"develop", "debug", "optimize", "refactor", "test", "document", "analyze"}

\* the actions whose pattern matches inside the word w (the patterns hold no blank,
\* so a match lies inside one word of the lower-cased command); any other word: none
PatternsIn(w) ==
  CASE w = "fix"              -> {"debug"}            \* fix
    [] w = "bug"              -> {"debug"}            \* bug
    [] w = "create"           -> {"develop"}          \* create
    [] w = "typescript"       -> {"develop"}          \* cri
    [] w = "faster"           -> {"optimize"}         \* faster
    [] w = "clean"            -> {"refactor"}         \* clean
    [] w = "tests"            -> {"test"}             \* test
    [] w = "latest"           -> {"test"}             \* test
    [] w = "documentation"    -> {"document"}         \* document
    [] w = "review"           -> {"analyze"}          \* review
    [] w = "performance-test" -> {"optimize", "test"} \* performance, test
    [] OTHER                  -> {}

\* pattern.test(normalized) for the pattern of action a
Matches(a, words) == \E w \in words : a \in PatternsIn(w)

\* a confidence that is not capped
Confidence_Uncapped(matchCount) == matchCount

\* Math.min(1.0, matchCount / 3), in thirds
Confidence(matchCount) == Min(3, matchCount)

\* targetFile: /([a-zA-Z0-9_\-]+\.[a-z]{2,4})/i on the command, the file name it
\* mentions; actions: one flag per entry of actionPatterns; confidence in thirds
analyzeIntent(cmd) ==
  LET actions == [a \in ActionNames |-> Matches(a, cmd.words)]
      matchCount == Cardinality({a \in ActionNames : actions[a]})
  IN  [targetFile |-> IF cmd.file # NoPath /\ ExtLen(cmd.file.ext) \in 2..4
                      THEN P(<<>>, cmd.file.base, cmd.file.ext) ELSE NoPath,
       fullCommand |-> cmd.text,
       actions |-> actions,
       confidence |-> Confidence(matchCount)]

\* the characters of the target file handed to the prompt
readTargetFile(fls, p) ==
  IF FullPath(p) \in DOMAIN fls /\ existsSync(fls, FullPath(p))
  THEN Min(TextAttr(fls[FullPath(p)]).len, MAX_CONTEXT_SIZE)
  ELSE 0

\* characters of the fixed part of the prompt template
TEMPLATE_LEN == 1100

\* prompt.length
buildPrompt(cmd, targetLen) ==
  TEMPLATE_LEN + cmd.len + (IF targetLen > 0 THEN targetLen + 30 ELSE 0)

(***************************************************************************)
(* AnimatedProgress                                                        *)
(***************************************************************************)
StageCount == 4

NewProgress == [currentIndex |-> -1, interval |-> FALSE]

\* next(): complete the running stage (clears the interval), start the next one
ProgressNext(p) ==
  [currentIndex |-> p.currentIndex + 1, interval |-> p.currentIndex + 1 < StageCount]

\* complete() and error(message): stopSpinner
ProgressStop(p) == [p EXCEPT !.interval = FALSE]

(***************************************************************************)
(* State                                                                   *)
(***************************************************************************)
VARIABLES
  pc,        \* where UltraAgent.execute is suspended
  command,   \* the command being executed
  intent,    \* CommandIntent of analyzeIntent
  progress,  \* the AnimatedProgress of execute
  aiCalls,   \* number of aiClient.ask calls made
  response,  \* the AI's answer
  rcFile,    \* .vibecoderc.json of the working directory
  prompts,   \* number of confirmation questions shown
  answer,    \* the line typed at the confirmation prompt
  confirmed, \* what requestConfirmation resolved to
  blocks,    \* the CodeBlocks of extractCodeBlocks
  next,      \* index of the block executeFileOperations handles next
  result,    \* the ExecutionResult being accumulated
  files,     \* file system: location -> content
  dirs,      \* file system: the directories that exist
  writes,    \* history: the fs.writeFileSync calls that succeeded, in order
  attempts,  \* history: per block handled, what became of it
  calls,     \* history: the methods of the pipeline entered so far
  reported,  \* handleError has printed the error
  rejected,  \* the promise of execute() was rejected
  arg,       \* the argument of the function under study (scanProject, analyzeIntent,
             \* validateCode, requestConfirmation), outside a command
  ret,       \* what that function returned
  trackCalls, \* history: the trackTokenUsage calls made, in all and since the last reset
  handlers,  \* VibeCodeTerminal: the 'line' handlers started, in order, and where each is
  history,   \* VibeCodeTerminal: state.history
  closed,    \* VibeCodeTerminal: rl was closed and the process has exited
  cfgFile,   \* ConfigManager: the fields of <cwd>/.vibecoderc.json
  env,       \* the environment variable that holds an API key, if any
  defaultUsage, \* DEFAULT_CONFIG.tokenUsage, the object every load() without a
             \* tokenUsage in the file hands out
  tracking,  \* the trackTokenUsage / resetTokenUsage calls and where each is
  completed  \* history: the tokens of the calls completed since the last reset

\* the state of one command through UltraAgent.execute
pipeVars == <<pc, command, intent, progress, aiCalls, response, rcFile, prompts, answer,
              confirmed, blocks, next, result, files, dirs, writes, attempts, calls,
              reported, rejected>>

\* the state the pipeline of one command leaves alone
termVars == <<handlers, history, closed>>

cfgVars == <<cfgFile, env, defaultUsage, tracking, completed>>

otherVars == <<arg, ret, trackCalls, termVars, cfgVars>>

vars == <<pipeVars, otherVars>>

NoCommand == [text |-> "", len |-> 0, file |-> NoPath, words |-> {}]

NoIntent == [targetFile |-> NoPath, fullCommand |-> ""]

NewResult == [success |-> TRUE, filesCreated |-> <<>>, filesModified |-> <<>>, errors |-> <<>>]

\* no function has been applied
NoRet == [fn |-> "none"]

NoCalls == [total |-> 0, sinceReset |-> 0]

UsageIdle == trackCalls = NoCalls

TermIdle ==
  /\ handlers = <<>>
  /\ history = <<>>
  /\ closed = FALSE

\* DEFAULT_CONFIG.tokenUsage
NoUsage == [exists |-> FALSE, totalTokens |-> 0, totalCost |-> 0, history |-> <<>>]

\* no .vibecoderc.json in the working directory
NoConfigFile ==
  [exists |-> FALSE, apiKey |-> "none", provider |-> "none", model |-> "none",
   usage |-> NoUsage]

ConfigIdle ==
  /\ cfgFile = NoConfigFile
  /\ env = "none"
  /\ defaultUsage = NoUsage
  /\ tracking = <<>>
  /\ completed = 0

OthersIdle ==
  /\ arg = NoRet
  /\ ret = NoRet
  /\ UsageIdle
  /\ TermIdle
  /\ ConfigIdle

PipelineIdle ==
  /\ pc = "idle"
  /\ command = NoCommand
  /\ intent = NoIntent
  /\ progress = NewProgress
  /\ aiCalls = 0
  /\ response = <<>>
  /\ rcFile = InitRc
  /\ prompts = 0
  /\ answer = ""
  /\ confirmed = FALSE
  /\ blocks = <<>>
  /\ next = 1
  /\ result = NewResult
  /\ files = InitFiles
  /\ dirs = InitDirs
  /\ writes = <<>>
  /\ attempts = <<>>
  /\ calls = {}
  /\ reported = FALSE
  /\ rejected = FALSE

Init == PipelineIdle /\ OthersIdle

(***************************************************************************)
(* execute: stages 1 to 3                                                  *)
(***************************************************************************)
\* execute(command): header, progress.next(), await sleep(300)
Execute ==
  /\ UNCHANGED otherVars
  /\ pc = "idle"
  /\ \E c \in Commands : command' = c
  /\ progress' = ProgressNext(NewProgress)
  /\ calls' = calls \cup {"execute"}
  /\ pc' = "sleep300"
  /\ UNCHANGED <<intent, aiCalls, response, rcFile, prompts, answer, confirmed, blocks,
                 next, result, files, dirs, writes, attempts, reported, rejected>>

\* analyzeIntent, progress.next(), await sleep(400)
Stage1 ==
  /\ UNCHANGED otherVars
  /\ pc = "sleep300"
  /\ intent' = analyzeIntent(command)
  /\ progress' = ProgressNext(progress)
  /\ calls' = calls \cup {"analyzeIntent"}
  /\ pc' = "sleep400"
  /\ UNCHANGED <<command, aiCalls, response, rcFile, prompts, answer, confirmed, blocks,
                 next, result, files, dirs, writes, attempts, reported, rejected>>

\* scanProject (reads only), progress.next(), executeWithAI up to aiClient.ask
Stage2 ==
  /\ UNCHANGED otherVars
  /\ pc = "sleep400"
  /\ progress' = ProgressNext(progress)
  /\ aiCalls' = aiCalls + 1
  /\ calls' = calls \cup {"scanProject", "executeWithAI"}
  /\ pc' = "ask"
  /\ UNCHANGED <<command, intent, response, rcFile, prompts, answer, confirmed, blocks,
                 next, result, files, dirs, writes, attempts, reported, rejected>>

\* a catch block that prints nothing and rethrows
Catch_Rethrow(event) ==
  /\ progress' = ProgressStop(progress)
  /\ reported' = FALSE
  /\ rejected' = TRUE
  /\ calls' = calls \cup {event}
  /\ pc' = "returned"

\* the catch block of execute: progress.error, handleError; nothing is rethrown
Catch(event) ==
  /\ progress' = ProgressStop(progress)
  /\ reported' = TRUE
  /\ rejected' = FALSE
  /\ calls' = calls \cup {event, "handleError"}
  /\ pc' = "returned"

\* aiClient.ask resolves: estimateTokens, then configManager.trackTokenUsage starts
AskResolves ==
  /\ UNCHANGED otherVars
  /\ pc = "ask"
  /\ \E r \in Responses : response' = r
  /\ calls' = calls \cup {"trackTokenUsage"}
  /\ pc' = "track"
  /\ UNCHANGED <<command, intent, progress, aiCalls, rcFile, prompts, answer, confirmed,
                 blocks, next, result, files, dirs, writes, attempts, reported, rejected>>

\* aiClient.ask rejects (network, authentication, rate limit)
AskRejects ==
  /\ UNCHANGED otherVars
  /\ pc = "ask"
  /\ Catch("askRejected")
  /\ UNCHANGED <<command, intent, aiCalls, response, rcFile, prompts, answer, confirmed,
                 blocks, next, result, files, dirs, writes, attempts>>

\* the prompt + response length trackTokenUsage is given the estimate of
UsageTokens ==
  estimateTokens(buildPrompt(command, IF intent.targetFile # NoPath
                                      THEN readTargetFile(files, intent.targetFile) ELSE 0)
                 + ResponseLen(response))

\* trackTokenUsage resolves; executeWithAI returns; progress.next(), await sleep(200)
TrackResolves ==
  /\ UNCHANGED otherVars
  /\ pc = "track"
  /\ rcFile' = trackTokenUsage(rcFile, UsageTokens)
  /\ progress' = ProgressNext(progress)
  /\ pc' = "sleep200"
  /\ UNCHANGED <<command, intent, aiCalls, response, prompts, answer, confirmed, blocks,
                 next, result, files, dirs, writes, attempts, calls, reported, rejected>>

\* trackTokenUsage rejects (load finds no API key, or save cannot write)
TrackRejects ==
  /\ UNCHANGED otherVars
  /\ pc = "track"
  /\ Catch("trackRejected")
  /\ UNCHANGED <<command, intent, aiCalls, response, rcFile, prompts, answer, confirmed,
                 blocks, next, result, files, dirs, writes, attempts>>

(***************************************************************************)
(* processResponse: display, confirmation, extraction                      *)
(***************************************************************************)
\* after sleep(200): displayResponse, then requestConfirmation asks its question
Stage4 ==
  /\ UNCHANGED otherVars
  /\ pc = "sleep200"
  /\ prompts' = prompts + 1
  /\ calls' = calls \cup {"processResponse", "displayResponse", "requestConfirmation"}
  /\ pc' = "question"
  /\ UNCHANGED <<command, intent, progress, aiCalls, response, rcFile, answer, confirmed,
                 blocks, next, result, files, dirs, writes, attempts, reported, rejected>>

\* the comparison without toLowerCase()
requestConfirmation_CaseSensitive(a) == a = "y" \/ a = "s"

\* answer.toLowerCase() === 'y' || answer.toLowerCase() === 's'
requestConfirmation(a) == ToLower(a) = "y" \/ ToLower(a) = "s"

\* processResponse without the `if (!confirmed) return`
AfterConfirmation_Ungated(ok, bs) ==
  IF Len(bs) = 0 THEN "nocode" ELSE "apply"

\* processResponse with the test of `confirmed` inverted
AfterConfirmation_Inverted(ok, bs) ==
  IF ok THEN "cancelled"
  ELSE IF Len(bs) = 0 THEN "nocode"
  ELSE "apply"

\* processResponse after the answer: where it goes with `ok` and the extracted blocks
AfterConfirmation(ok, bs) ==
  IF ~ok THEN "cancelled"
  ELSE IF Len(bs) = 0 THEN "nocode"
  ELSE "apply"

\* the line typed at the prompt arrives
Answer ==
  /\ UNCHANGED otherVars
  /\ pc = "question"
  /\ \E a \in Answers :
       LET ok == requestConfirmation(a)
           go == AfterConfirmation(ok, extractCodeBlocks(response))
       IN  /\ answer' = a
           /\ confirmed' = ok
           /\ blocks' = IF go = "cancelled" THEN <<>> ELSE extractCodeBlocks(response)
           /\ IF go = "apply"
              THEN /\ pc' = "apply"
                   /\ calls' = calls \cup {"extractCodeBlocks", "executeFileOperations"}
                   /\ progress' = progress
              ELSE /\ pc' = "returned"
                   /\ calls' = calls \cup (IF go = "cancelled" THEN {} ELSE {"extractCodeBlocks"})
                   /\ progress' = ProgressStop(progress)
  /\ next' = 1
  /\ result' = NewResult
  /\ UNCHANGED <<command, intent, aiCalls, response, rcFile, prompts, files, dirs, writes,
                 attempts, reported, rejected>>

(***************************************************************************)
(* executeFileOperations                                                   *)
(***************************************************************************)
\* `if (!validation.isValid) { ...; continue; }`: the block is not written
SkipsBlock(validation) == ~validation.isValid

\* block.path || intent.targetFile
FilePath(block, int) == IF block.path # NoPath THEN block.path ELSE int.targetFile

\* a catch block that records no message
Caught_Silent(res, message) == [res EXCEPT !.success = FALSE]

\* the two lists exchanged
Track_Swapped(res, existed, filePath) ==
  IF existed
  THEN [res EXCEPT !.filesCreated = Append(@, filePath)]
  ELSE [res EXCEPT !.filesModified = Append(@, filePath)]

\* result after a successful write of filePath that did / did not exist before
Track(res, existed, filePath) ==
  IF existed
  THEN [res EXCEPT !.filesModified = Append(@, filePath)]
  ELSE [res EXCEPT !.filesCreated = Append(@, filePath)]

\* result after the catch block of the loop
Caught(res, message) ==
  [res EXCEPT !.success = FALSE, !.errors = Append(@, message)]

\* a loop that an error leaves (try/catch around the loop instead of inside it)
NextBlock_Abort(k, n, failed) == IF failed THEN n + 1 ELSE k + 1

\* the block handled after block k of n; `failed`: block k raised an error
NextBlock(k, n, failed) == k + 1

\* what fs.mkdirSync / fs.writeFileSync may do for a block
IoOutcomes(dirExists) ==
  IF dirExists THEN {"written", "writeFailed"} ELSE {"written", "writeFailed", "mkdirFailed"}

\* one turn of the for loop, on block `next`
ApplyBlock ==
  /\ UNCHANGED otherVars
  /\ pc = "apply"
  /\ next <= Len(blocks)
  /\ LET block == blocks[next]
         validation == validateCode(block.code, block.language)
         filePath == FilePath(block, intent)
         fullPath == FullPath(filePath)
         dir == DirName(fullPath)
     IN  IF SkipsBlock(validation)
         THEN /\ result' = [result EXCEPT !.errors = Append(@, "Invalid code")]
              /\ attempts' = Append(attempts, "invalid")
              /\ next' = NextBlock(next, Len(blocks), FALSE)
              /\ UNCHANGED <<files, dirs, writes>>
         ELSE IF filePath = NoPath
         THEN /\ result' = [result EXCEPT !.errors = Append(@, "No file path specified")]
              /\ attempts' = Append(attempts, "nopath")
              /\ next' = NextBlock(next, Len(blocks), FALSE)
              /\ UNCHANGED <<files, dirs, writes>>
         ELSE \E io \in IoOutcomes(dir \in dirs) :
                /\ attempts' = Append(attempts, io)
                /\ next' = NextBlock(next, Len(blocks), io # "written")
                /\ dirs' = IF io = "mkdirFailed" THEN dirs ELSE dirs \cup Ancestors(dir)
                /\ IF io = "written"
                   THEN /\ files' = [files EXCEPT ![fullPath] = block.code]
                        /\ result' = Track(result, existsSync(files, fullPath), filePath)
                        /\ writes' = Append(writes, [at |-> fullPath, code |-> block.code,
                                                     path |-> filePath, block |-> next])
                   ELSE /\ result' = Caught(result, IF io = "mkdirFailed"
                                                    THEN "EACCES: mkdir" ELSE "EIO: write")
                        /\ UNCHANGED <<files, writes>>
  /\ UNCHANGED <<pc, command, intent, progress, aiCalls, response, rcFile, prompts, answer,
                 confirmed, blocks, calls, reported, rejected>>

\* the loop is over: displayExecutionSummary, progress.complete()
Summary ==
  /\ UNCHANGED otherVars
  /\ pc = "apply"
  /\ next > Len(blocks)
  /\ calls' = calls \cup {"displayExecutionSummary"}
  /\ progress' = ProgressStop(progress)
  /\ pc' = "returned"
  /\ UNCHANGED <<command, intent, aiCalls, response, rcFile, prompts, answer, confirmed,
                 blocks, next, result, files, dirs, writes, attempts, reported, rejected>>

Next ==
  \/ Execute
  \/ Stage1
  \/ Stage2
  \/ AskResolves
  \/ AskRejects
  \/ TrackResolves
  \/ TrackRejects
  \/ Stage4
  \/ Answer
  \/ ApplyBlock
  \/ Summary

Spec == Init /\ [][Next]_vars

(***************************************************************************)
(* scanProject.  The project is a chain of directories, one per level: each *)
(* holds a run of files of one extension and one subdirectory entry, which *)
(* leads to the next level, or, for the last level of a looping project, is *)
(* a symbolic link back to the scan root.                                  *)
(***************************************************************************)
MAX_SCAN_FILES == 50

MAX_SCAN_DEPTH == 4

MaxLevels == 6

RELEVANT_EXTENSIONS == {"ts", "tsx", "js", "jsx", "vue", "py", "java", "go", "rs", "c", "cpp", "cs"}

IGNORE_DIRECTORIES ==
  {"node_modules", ".git", "dist", "build", "out", ".next", "coverage", ".vscode", "target", "vendor"}

\* a level: n files with extension ext, a subdirectory entry named sub, and which of
\* the two readdirSync lists first
Level(n, ext, sub, first) == [n |-> n, ext |-> ext, sub |-> sub, first |-> first]

LevelKinds ==
  { Level(30, "md", "lib", "files"), Level(1, "ts", "lib", "dir"),
    Level(30, "ts", "lib", "files"), Level(30, "py", "lib", "dir"),
    Level(1, "ts", "node_modules", "files") }

\* a project: its levels; loop: the last level links back to the root; broken: the
\* level whose directory lists, before its other entries, one that statSync cannot
\* read; unreadable: the level whose directory readdirSync cannot list (0: none);
\* pkg: the state of package.json in the root
Project(levels, loop, broken, unreadable, pkg) ==
  [levels |-> levels, loop |-> loop, broken |-> broken, unreadable |-> unreadable,
   pkg |-> pkg]

Projects ==
  { Project(l, b, 0, 0, "absent") :
      l \in UNION { [1..n -> LevelKinds] : n \in 1..MaxLevels }, b \in BOOLEAN }

MaxFaultLevels == 3

\* projects in which the scan meets I/O errors
FaultyProjects ==
  { Project(l, FALSE, br, un, pkg) :
      l \in UNION { [1..n -> LevelKinds] : n \in 1..MaxFaultLevels },
      br \in 0..MaxFaultLevels, un \in 0..MaxFaultLevels,
      pkg \in {"absent", "valid", "corrupt", "unreadable"} }

\* the level the subdirectory entry of level i leads to; 0: there is none
SubDirOf(project, i) ==
  IF i < Len(project.levels) THEN i + 1
  ELSE IF project.loop THEN 1
  ELSE 0

\* fs.readdirSync(dir) for the directory of level i
readdirSync(project, i) ==
  LET l == project.levels[i]
      run == <<[kind |-> "files", n |-> l.n, ext |-> l.ext]>>
      sub == IF SubDirOf(project, i) = 0 THEN <<>>
             ELSE <<[kind |-> "dir", name |-> l.sub, to |-> SubDirOf(project, i)]>>
      bad == IF project.broken = i THEN <<[kind |-> "broken"]>> ELSE <<>>
  IN  bad \o (IF l.first = "files" THEN run \o sub ELSE sub \o run)

\* fs.readdirSync(dir) throws for the directory of level i
CannotList(project, i) == project.unreadable = i

\* IGNORE_DIRECTORIES.includes(name) || name.startsWith('.')
shouldIgnoreItem(name) == name \in IGNORE_DIRECTORIES

isRelevantFile(ext) == ext \in RELEVANT_EXTENSIONS

\* initializeContext(): no file yet; deepest: the largest depth scanDirectory was called with
initializeContext == [fn |-> "scanProject", files |-> <<>>, technologies |-> {}, deepest |-> 0]

\* detectTechnologies(): package.json is read if it exists; a read or parse error is
\* swallowed
detectTechnologies(project, ctx) ==
  IF project.pkg = "valid" THEN [ctx EXCEPT !.technologies = {"TypeScript"}] ELSE ctx

\* a statSync error that leaves the loop of its directory
AfterStatError_LeaveLoop(k, n) == n + 1

\* the item handled after item k of n, whose statSync threw: the inner catch skips it
AfterStatError(k, n) == k + 1

\* a guard that lets one more level through
StopsScan_OneDeeper(depth, length) ==
  depth > MAX_SCAN_DEPTH + 1 \/ length >= MAX_SCAN_FILES

\* depth > MAX_SCAN_DEPTH || this.projectContext.files.length >= MAX_SCAN_FILES
StopsScan(depth, length) ==
  depth > MAX_SCAN_DEPTH \/ length >= MAX_SCAN_FILES

\* scanDirectory(dir, depth) on the directory of level i, and its for loop from item k
RECURSIVE scanDirectory(_, _, _, _)
RECURSIVE ScanItems(_, _, _, _, _)
ScanItems(project, i, k, depth, ctx) ==
  LET items == readdirSync(project, i)
  IN  IF k > Len(items) THEN ctx
      ELSE IF items[k].kind = "broken"
      THEN ScanItems(project, i, AfterStatError(k, Len(items)), depth, ctx)
      ELSE IF items[k].kind = "dir"
      THEN ScanItems(project, i, k + 1, depth,
             IF shouldIgnoreItem(items[k].name) THEN ctx
             ELSE scanDirectory(project, items[k].to, depth + 1, ctx))
      ELSE ScanItems(project, i, k + 1, depth,
             IF isRelevantFile(items[k].ext)
             THEN [ctx EXCEPT !.files = @ \o [f \in 1..items[k].n |->
                                                [depth |-> depth, level |-> i,
                                                 ext |-> items[k].ext]]]
             ELSE ctx)

scanDirectory(project, i, depth, ctx) ==
  LET entered == [ctx EXCEPT !.deepest = Max(@, depth)]
  IN  IF StopsScan(depth, Len(ctx.files)) THEN entered
      ELSE IF CannotList(project, i) THEN entered
      ELSE ScanItems(project, i, 1, depth, entered)

\* scanProject(): detectTechnologies, then scanDirectory(this.currentDir, 0), on a
\* fresh context
scanProject(project) ==
  scanDirectory(project, 1, 0, detectTechnologies(project, initializeContext))

ScanInit ==
  /\ PipelineIdle
  /\ arg \in Projects
  /\ ret = NoRet
  /\ UsageIdle
  /\ TermIdle
  /\ ConfigIdle

\* stage 2 of a command in a project: scanProject runs to its end
ScanProject ==
  /\ ret = NoRet
  /\ ret' = scanProject(arg)
  /\ UNCHANGED <<pipeVars, arg, trackCalls, termVars, cfgVars>>

ScanNext == ScanProject

SpecScan == ScanInit /\ [][ScanNext]_vars

FaultInit ==
  /\ PipelineIdle
  /\ arg \in FaultyProjects
  /\ ret = NoRet
  /\ UsageIdle
  /\ TermIdle
  /\ ConfigIdle

\* scanProject in projects with I/O errors
SpecScanFaults == FaultInit /\ [][ScanNext]_vars

(***************************************************************************)
(* VibeCodeTerminal: the lines typed and the handlers they start.  A `vibe` *)
(* handler is UltraAgent.execute, followed through its await points.       *)
(***************************************************************************)
MaxLines == 2

\* the lines a user types, trimmed
Lines == {"vibe fix it", "help", "", "exit", "y", "n"}

NoAnswer == "-"

\* handleCommand(input) up to its first await: where the handler is then
StartPc(line) == IF line = "vibe fix it" THEN "sleep300" ELSE "return"

\* a requestConfirmation question is waiting for a line
QuestionPending == \E h \in 1..Len(handlers) : handlers[h].pc = "question"

\* the event loop takes the next event (a line, a timer, a settled request) only
\* when no continuation of an `await` is left to run
EventLoopIdle == ~closed /\ \A h \in 1..Len(handlers) : handlers[h].pc # "return"

\* a handler whose continuation never prompts
Prompted_Never(h) == h

\* the continuation of the 'line' handler: rl.setPrompt(...), rl.prompt()
Prompted(h) == [h EXCEPT !.pc = "prompted"]

\* a line arrives on process.stdin.  The questions of requestConfirmation that
\* are waiting get it as their answer; the terminal's own readline emits 'line':
\* setupKeyBindings pushes it to state.history, and the listener of start() calls
\* handleCommand, whether or not an earlier handler has finished.
TypeLine ==
  /\ EventLoopIdle
  /\ \E l \in Lines :
       /\ Len(handlers) < MaxLines \/ (QuestionPending /\ l \in {"y", "n"})
       /\ handlers' =
            Append([h \in 1..Len(handlers) |->
                      IF handlers[h].pc = "question"
                      THEN [handlers[h] EXCEPT !.pc = "return", !.answer = l]
                      ELSE handlers[h]],
                   [line |-> l, pc |-> StartPc(l), answer |-> NoAnswer])
       /\ history' = IF l # "" THEN Append(history, l) ELSE history
       /\ closed' = (l = "exit")
  /\ UNCHANGED <<pipeVars, arg, ret, trackCalls, cfgVars>>

\* the user answers a question that is waiting
AnswerTyped == QuestionPending /\ TypeLine

\* the stage after a sleep of execute
AfterSleep(p) ==
  CASE p = "sleep300" -> "sleep400"
    [] p = "sleep400" -> "ask"
    [] p = "sleep200" -> "question"

\* a timer of execute fires in handler h
Timer(h) ==
  /\ EventLoopIdle
  /\ h \in 1..Len(handlers)
  /\ handlers[h].pc \in {"sleep300", "sleep400", "sleep200"}
  /\ handlers' = [handlers EXCEPT ![h].pc = AfterSleep(@)]
  /\ UNCHANGED <<pipeVars, arg, ret, trackCalls, history, closed, cfgVars>>

\* aiClient.ask settles in handler h: resolved, or rejected and caught by execute
AskSettles(h) ==
  /\ EventLoopIdle
  /\ h \in 1..Len(handlers)
  /\ handlers[h].pc = "ask"
  /\ \E to \in {"track", "return"} : handlers' = [handlers EXCEPT ![h].pc = to]
  /\ UNCHANGED <<pipeVars, arg, ret, trackCalls, history, closed, cfgVars>>

\* configManager.trackTokenUsage settles in handler h, likewise
TrackSettles(h) ==
  /\ EventLoopIdle
  /\ h \in 1..Len(handlers)
  /\ handlers[h].pc = "track"
  /\ \E to \in {"sleep200", "return"} : handlers' = [handlers EXCEPT ![h].pc = to]
  /\ UNCHANGED <<pipeVars, arg, ret, trackCalls, history, closed, cfgVars>>

\* `await this.handleCommand(...)` resumes in handler h
Continue(h) ==
  /\ ~closed
  /\ h \in 1..Len(handlers)
  /\ handlers[h].pc = "return"
  /\ handlers' = [handlers EXCEPT ![h] = Prompted(@)]
  /\ UNCHANGED <<pipeVars, arg, ret, trackCalls, history, closed, cfgVars>>

\* a handler per line typed, and one more per answer
MaxHandlers == 2 * MaxLines

TermInit ==
  /\ PipelineIdle
  /\ arg = NoRet
  /\ ret = NoRet
  /\ UsageIdle
  /\ TermIdle
  /\ ConfigIdle

TermNext ==
  \/ TypeLine
  \/ \E h \in 1..MaxHandlers : Timer(h)
  \/ \E h \in 1..MaxHandlers : AskSettles(h)
  \/ \E h \in 1..MaxHandlers : TrackSettles(h)
  \/ \E h \in 1..MaxHandlers : Continue(h)

SpecTerm == TermInit /\ [][TermNext]_vars

\* timers fire, continuations run; the AI call, the usage tracking and the
\* confirmation prompt return
SpecTermLive ==
  /\ SpecTerm
  /\ WF_vars(AnswerTyped)
  /\ \A h \in 1..MaxHandlers :
       /\ WF_vars(Timer(h))
       /\ WF_vars(AskSettles(h))
       /\ WF_vars(TrackSettles(h))
       /\ WF_vars(Continue(h))

(***************************************************************************)
(* ConfigManager over many commands: trackTokenUsage and resetTokenUsage   *)
(* called one after the other in one working directory                     *)
(***************************************************************************)
MaxCalls == 103

\* the tokens the n-th call reports: each call is told from the others
TokensOfCall(n) == n

\* load, a fresh tokenUsage, save
resetTokenUsage(rc) ==
  [exists |-> TRUE, totalTokens |-> 0, totalCost |-> 0, history |-> <<>>]

UsageInit ==
  /\ PipelineIdle
  /\ arg = NoRet
  /\ ret = NoRet
  /\ UsageIdle
  /\ TermIdle
  /\ ConfigIdle

\* a command's AI call has returned: trackTokenUsage(tokens, 'ultra-agent')
TrackCall ==
  /\ trackCalls.total < MaxCalls
  /\ rcFile' = trackTokenUsage(rcFile, TokensOfCall(trackCalls.total + 1))
  /\ trackCalls' = [total |-> trackCalls.total + 1, sinceReset |-> trackCalls.sinceReset + 1]
  /\ UNCHANGED <<pc, command, intent, progress, aiCalls, response, prompts, answer,
                 confirmed, blocks, next, result, files, dirs, writes, attempts, calls,
                 reported, rejected, arg, ret, termVars, cfgVars>>

\* resetTokenUsage()
ResetCall ==
  /\ trackCalls.sinceReset > 0
  /\ rcFile' = resetTokenUsage(rcFile)
  /\ trackCalls' = [trackCalls EXCEPT !.sinceReset = 0]
  /\ UNCHANGED <<pc, command, intent, progress, aiCalls, response, prompts, answer,
                 confirmed, blocks, next, result, files, dirs, writes, attempts, calls,
                 reported, rejected, arg, ret, termVars, cfgVars>>

UsageNext == TrackCall \/ ResetCall

SpecUsage == UsageInit /\ [][UsageNext]_vars

(***************************************************************************)
(* validateCode applied to codes of every small shape                      *)
(***************************************************************************)
MaxCount == 3

Languages == {"typescript", "javascript", "tsx", "jsx", "ts", "js", "python"}

\* codes by their attributes: lengths around the two thresholds, up to MaxCount
\* braces and parentheses of each kind
CodeAttrs ==
  { Attr(len, ob, cb, op, cp, defs, openComment, FALSE, FALSE) :
      len \in {50, 150, 250}, ob \in 0..MaxCount, cb \in 0..MaxCount,
      op \in 0..MaxCount, cp \in 0..MaxCount, defs \in BOOLEAN, openComment \in BOOLEAN }

ValidateInit ==
  /\ PipelineIdle
  /\ arg \in [code : CodeAttrs, language : Languages]
  /\ ret = NoRet
  /\ UsageIdle
  /\ TermIdle
  /\ ConfigIdle

\* executeFileOperations validates a block
ValidateCode ==
  /\ ret = NoRet
  /\ ret' = [fn |-> "validateCode", result |-> ValidateAttrs(arg.code, arg.language)]
  /\ UNCHANGED <<pipeVars, arg, trackCalls, termVars, cfgVars>>

ValidateNext == ValidateCode

SpecValidate == ValidateInit /\ [][ValidateNext]_vars

(***************************************************************************)
(* analyzeIntent applied to commands made of a few words                   *)
(***************************************************************************)
MaxWords == 4

Vocabulary ==
  {"fix", "create", "typescript", "faster", "clean", "tests", "latest", "documentation",
   "review", "performance-test", "hello", "the"}

\* the commands of at most MaxWords words of the vocabulary
IntentCommands ==
  { [text |-> "", len |-> 0, file |-> NoPath, words |-> ws] :
      ws \in { v \in SUBSET Vocabulary : Cardinality(v) <= MaxWords } }

IntentInit ==
  /\ PipelineIdle
  /\ arg \in IntentCommands
  /\ ret = NoRet
  /\ UsageIdle
  /\ TermIdle
  /\ ConfigIdle

\* stage 1 of a command
AnalyzeIntent ==
  /\ ret = NoRet
  /\ ret' = [fn |-> "analyzeIntent", intent |-> analyzeIntent(arg)]
  /\ UNCHANGED <<pipeVars, arg, trackCalls, termVars, cfgVars>>

IntentNext == AnalyzeIntent

SpecIntent == IntentInit /\ [][IntentNext]_vars

(***************************************************************************)
(* The places that show the API key: config list, config get apiKey,       *)
(* config keys, and sanitizeForLog                                         *)
(***************************************************************************)
MaxKeyLen == 9

\* sanitizeApiKey masks a key whole when it is shorter than this
MIN_SANITIZED_LENGTH == 8

\* key.slice(-4)
SHOWN_CHARS == 4

\* the API keys load() returns: not empty
ApiKeys == UNION { [1..n -> {"a", "b"}] : n \in 1..MaxKeyLen }

Sites == {"list", "get", "keys", "sanitizeForLog"}

\* key.slice(-n)
Slice(key, n) == SubSeq(key, Max(1, Len(key) - n + 1), Len(key))

\* what is printed: the mask and the characters of the key after it
Shown(mask, tail) == [mask |-> mask, tail |-> tail]

\* if (!key || key.length < 8) return '****'; return '****' + key.slice(-4)
sanitizeApiKey(key) ==
  IF Len(key) = 0 \/ Len(key) < MIN_SANITIZED_LENGTH THEN Shown("****", <<>>)
  ELSE Shown("****", Slice(key, SHOWN_CHARS))

\* '****' + config.apiKey.slice(-4) of manageConfig (list, get) and manageApiKeys
MaskInline(key) == Shown("****", Slice(key, SHOWN_CHARS))

\* what the site prints of the key
Display(site, key) ==
  IF site = "sanitizeForLog" THEN sanitizeApiKey(key) ELSE MaskInline(key)

KeyInit ==
  /\ PipelineIdle
  /\ arg \in [key : ApiKeys, site : Sites]
  /\ ret = NoRet
  /\ UsageIdle
  /\ TermIdle
  /\ ConfigIdle

\* the configuration is shown or logged
ShowKey ==
  /\ ret = NoRet
  /\ ret' = [fn |-> "showKey", out |-> Display(arg.site, arg.key)]
  /\ UNCHANGED <<pipeVars, arg, trackCalls, termVars, cfgVars>>

KeyNext == ShowKey

SpecKey == KeyInit /\ [][KeyNext]_vars

(***************************************************************************)
(* ConfigManager: load and save of overlapping trackTokenUsage calls       *)
(***************************************************************************)
MaxTracks == 3

\* the token counts a call may report
TrackTokens == {1, 2}

\* process.env: which of the two key variables is set
EnvVars == {"none", "OPENAI_API_KEY", "ANTHROPIC_API_KEY"}

\* the .vibecoderc.json a session may start with: none, one with a key only,
\* one with a key and a provider
InitConfigFiles ==
  { NoConfigFile,
    [NoConfigFile EXCEPT !.exists = TRUE, !.apiKey = "file-key"],
    [NoConfigFile EXCEPT !.exists = TRUE, !.apiKey = "file-key",
                         !.provider = "anthropic", !.model = "claude-3"] }

\* the cost of `tokens` tokens in 1e-7 dollars: 70% input, 30% output at the
\* provider's prices per million
CostFor(provider, tokens) ==
  IF provider = "anthropic" THEN tokens * (7 * 3 + 3 * 15)
  ELSE IF provider = "openai" THEN Cost(tokens)
  ELSE 0

\* config.tokenUsage after the entry of a call was added to it
addUsage(usage, tokens, provider) ==
  [exists |-> TRUE,
   totalTokens |-> usage.totalTokens + tokens,
   totalCost |-> usage.totalCost + CostFor(provider, tokens),
   history |-> LastEntries(Append(usage.history,
                 [tokens |-> tokens, cost |-> CostFor(provider, tokens),
                  command |-> "ultra-agent"]))]

\* { ...DEFAULT_CONFIG, ...result.config } and the environment override: the
\* configuration object load() returns.  shared: its tokenUsage is the object
\* DEFAULT_CONFIG holds, not one parsed from the file.
load(file, e) ==
  [found    |-> file.exists,
   apiKey   |-> IF e # "none" THEN "env-key" ELSE file.apiKey,
   provider |-> IF e = "OPENAI_API_KEY" THEN "openai"
                ELSE IF e = "ANTHROPIC_API_KEY" THEN "anthropic"
                ELSE IF file.provider # "none" THEN file.provider
                ELSE "openai",
   model    |-> IF file.model # "none" THEN file.model ELSE "gpt-4",
   shared   |-> ~file.usage.exists,
   usage    |-> file.usage]

\* { ...existing, ...updates }: every key of updates replaces the file's
save(existing, updates) ==
  [exists   |-> TRUE,
   apiKey   |-> updates.apiKey,
   provider |-> updates.provider,
   model    |-> updates.model,
   usage    |-> updates.usage]

ConfigInit ==
  /\ PipelineIdle
  /\ arg = NoRet
  /\ ret = NoRet
  /\ UsageIdle
  /\ TermIdle
  /\ cfgFile \in InitConfigFiles
  /\ env \in EnvVars
  /\ defaultUsage = NoUsage
  /\ tracking = <<>>
  /\ completed = 0

Begins(kind, tokens) ==
  /\ Len(tracking) < MaxTracks
  /\ tracking' = Append(tracking,
       [kind |-> kind, tokens |-> tokens, pc |-> "loading",
        config |-> load(NoConfigFile, "none")])
  /\ UNCHANGED <<cfgFile, env, defaultUsage, completed>>

\* a command's AI call has returned: trackTokenUsage(tokens, command) is called
TrackBegins == \E t \in TrackTokens : Begins("track", t)

\* `config reset-usage`: resetTokenUsage() is called
ResetBegins == Begins("reset", 0)

\* await this.load() resolves with the configuration read from the file
LoadResolves(c) ==
  /\ tracking[c].pc = "loading"
  /\ load(cfgFile, env).apiKey # "none"
  /\ tracking' = [tracking EXCEPT ![c].pc = "loaded",
                                  ![c].config = load(cfgFile, env)]
  /\ UNCHANGED <<cfgFile, env, defaultUsage, completed>>

\* await this.load() throws ConfigError: no API key
LoadThrows(c) ==
  /\ tracking[c].pc = "loading"
  /\ load(cfgFile, env).apiKey = "none"
  /\ tracking' = [tracking EXCEPT ![c].pc = "rejected"]
  /\ UNCHANGED <<cfgFile, env, defaultUsage, completed>>

\* the rest of trackTokenUsage: the entry is added to config.tokenUsage and
\* the whole configuration is saved
TrackSaves(c) ==
  LET call == tracking[c]
      base == IF call.config.shared THEN defaultUsage ELSE call.config.usage
      usage == addUsage(base, call.tokens, call.config.provider)
  IN /\ call.pc = "loaded"
     /\ call.kind = "track"
     /\ cfgFile' = save(cfgFile, [call.config EXCEPT !.usage = usage])
     /\ defaultUsage' = IF call.config.shared
                          THEN [usage EXCEPT !.exists = FALSE]
                          ELSE defaultUsage
     /\ tracking' = [tracking EXCEPT ![c].pc = "saved"]
     /\ completed' = completed + call.tokens
     /\ UNCHANGED env

\* the rest of resetTokenUsage: a fresh tokenUsage is assigned and saved
ResetSaves(c) ==
  LET call == tracking[c]
  IN /\ call.pc = "loaded"
     /\ call.kind = "reset"
     /\ cfgFile' = save(cfgFile,
                     [call.config EXCEPT !.usage = resetTokenUsage(NoUsage)])
     /\ defaultUsage' = IF call.config.found THEN defaultUsage ELSE NoUsage
     /\ tracking' = [tracking EXCEPT ![c].pc = "saved"]
     /\ completed' = 0
     /\ UNCHANGED env

ConfigNext ==
  \/ /\ \/ TrackBegins
        \/ ResetBegins
        \/ \E c \in 1..MaxTracks :
             /\ c <= Len(tracking)
             /\ \/ LoadResolves(c)
                \/ LoadThrows(c)
                \/ TrackSaves(c)
                \/ ResetSaves(c)
     /\ UNCHANGED <<pipeVars, arg, ret, trackCalls, termVars>>

SpecConfig == ConfigInit /\ [][ConfigNext]_vars

(***************************************************************************)
(* Properties                                                              *)
(***************************************************************************)
Applying == "executeFileOperations" \in calls

\* the user answered the prompt and requestConfirmation resolved to false
Declined == pc = "returned" /\ prompts = 1 /\ "handleError" \notin calls /\ ~confirmed

ProjectUntouched == files = InitFiles /\ dirs = InitDirs /\ writes = <<>>

IoFailures == {"writeFailed", "mkdirFailed"}

IsPrefix(s, t) == Len(s) <= Len(t) /\ SubSeq(t, 1, Len(s)) = s

\* the location lies in the working directory (or below it)
InsideCwd(loc) == IsPrefix(currentDir, loc.dir)

\* block k of the list has been written
Written(k) == \E i \in 1..Len(writes) : writes[i].block = k /\ writes[i].code = blocks[k].code

\* C1: within one command no file is written, no directory is created and
\* executeFileOperations is not entered unless the confirmation prompt was shown
\* and requestConfirmation resolved to true.
C1_ConfirmedBeforeAnyWrite ==
  (Applying \/ ~ProjectUntouched)
    => (prompts = 1 /\ "requestConfirmation" \in calls /\ confirmed)

C1_Witness == confirmed /\ writes # <<>> /\ files # InitFiles

\* C2 (as claimed): after a declined confirmation no ExecutionResult was computed
\* and every file, the tool's own .vibecoderc.json included, is as the command
\* found it.
C2_DeclineTouchesNothing ==
  Declined => (~Applying /\ result = NewResult /\ ProjectUntouched /\ rcFile = InitRc)

\* C2 (amended): after a declined confirmation no ExecutionResult was computed and
\* no file or directory of the project has changed; the one file written is
\* .vibecoderc.json, to which trackTokenUsage added the usage of the AI call.
C2_DeclineTouchesOnlyUsageFile ==
  Declined => /\ ~Applying
              /\ result = NewResult
              /\ ProjectUntouched
              /\ rcFile.exists
              /\ Len(rcFile.history) = Len(InitRc.history) + 1
              /\ rcFile.totalTokens > InitRc.totalTokens

C2_Witness == Declined /\ answer = "n" /\ Len(response) > 0

\* C3: a validation finding never prevents a write: every block handled by
\* executeFileOperations that has a path was written, unless the write itself
\* raised an I/O error.
C3_ValidationNeverPreventsWrite ==
  Applying =>
    \A k \in 1..Len(attempts) :
      FilePath(blocks[k], intent) # NoPath => (Written(k) \/ attempts[k] \in IoFailures)

\* C4: when the AI call fails the command ends with the AI client called exactly
\* once, no confirmation asked, executeFileOperations not entered, no file written
\* (project or usage file), and the error printed by handleError, not rethrown.
C4_AiFailureEndsCommand ==
  "askRejected" \in calls =>
    /\ pc = "returned"
    /\ aiCalls = 1
    /\ prompts = 0
    /\ ~Applying
    /\ ProjectUntouched
    /\ rcFile = InitRc
    /\ reported
    /\ ~rejected

C4_Witness == "askRejected" \in calls /\ pc = "returned"

\* C5: every file written comes from a fenced block of the response whose trimmed
\* code has at least 200 characters and is no shell-command example, and whose
\* extracted path has an extension of the allow-list; the file written is that path
\* and its content is that code.
C5_WrittenBlocksPassedFilters ==
  \A i \in 1..Len(writes) :
    LET w == writes[i]
    IN  /\ w.path # NoPath
        /\ ToLower(w.path.ext) \in
             {"ts", "tsx", "js", "jsx", "json", "md", "html", "css", "scss", "yaml", "yml"}
        /\ w.at = FullPath(w.path)
        /\ files[w.at] # Absent
        /\ \E j \in 1..Len(response) :
             /\ response[j].kind = "fence"
             /\ response[j].text = w.code
             /\ TextAttr(w.code).len >= 200
             /\ ~TextAttr(w.code).cmdPrefix
             /\ ~TextAttr(w.code).exampleMarker
             /\ extractPathBeforeBlock(response, j) = w.path

C5_Witness == Len(writes) >= 2 /\ pc = "returned"

\* C6: no write of the agent targets a location outside the working directory.
C6_NoWriteOutsideCwd ==
  \A i \in 1..Len(writes) : InsideCwd(writes[i].at)

\* C7: when two extracted blocks resolve to the same path, then (I/O errors aside)
\* after the command the file holds the code of the later one.
C7_LastWriteWins ==
  (pc = "returned" /\ Applying /\ result.success) =>
    \A i, j \in 1..Len(blocks) :
      ( /\ i < j
        /\ FullPath(blocks[i].path) = FullPath(blocks[j].path)
        /\ \A k \in (j + 1)..Len(blocks) : FullPath(blocks[k].path) # FullPath(blocks[j].path) )
      => files[FullPath(blocks[j].path)] = blocks[j].code

\* C8: an I/O error on one block is caught and appended to the result's errors,
\* the loop goes on to every later block, and what earlier blocks wrote stays.
C8_IoErrorDoesNotStopLoop ==
  Applying =>
    /\ Len(attempts) = next - 1
    /\ pc = "returned" => Len(attempts) = Len(blocks)
    /\ Cardinality({i \in 1..Len(result.errors) :
                      result.errors[i] \in {"EACCES: mkdir", "EIO: write"}})
         = Cardinality({k \in 1..Len(attempts) : attempts[k] \in IoFailures})
    /\ (\E k \in 1..Len(attempts) : attempts[k] \in IoFailures) => ~result.success
    /\ \A i \in 1..Len(writes) :
         (\A j \in (i + 1)..Len(writes) : writes[j].at # writes[i].at)
           => files[writes[i].at] = writes[i].code

C8_Witness ==
  /\ pc = "returned"
  /\ Len(attempts) = 2
  /\ attempts[1] \in IoFailures
  /\ attempts[2] = "written"
  /\ Len(result.errors) = 1

\* C9 (on every write): the path goes to filesModified if the target existed just
\* before the write and to filesCreated otherwise, and to that list only.
C9_WriteStep ==
  Len(writes') = Len(writes) + 1 =>
    LET w == writes'[Len(writes')]
    IN  IF files[w.at] # Absent
        THEN /\ result'.filesModified = Append(result.filesModified, w.path)
             /\ result'.filesCreated = result.filesCreated
        ELSE /\ result'.filesCreated = Append(result.filesCreated, w.path)
             /\ result'.filesModified = result.filesModified

\* C9 (the example): one write, over the existing auth.ts
C9_OverwriteIsModified ==
  (pc = "returned" /\ Len(writes) = 1 /\ writes[1].at = FullPath(AuthTs))
    => (result.filesModified = <<AuthTs>> /\ result.filesCreated = <<>>)

\* C9: each successful write is classified by whether its target existed
\* immediately before it; overwriting the existing auth.ts gives
\* filesModified = <<auth.ts>> and an empty filesCreated.
C9_ClassifiedByPreExistence == []C9_OverwriteIsModified /\ [][C9_WriteStep]_vars

C9_Witness ==
  /\ pc = "returned"
  /\ Len(writes) = 1
  /\ writes[1].at = FullPath(AuthTs)
  /\ result.filesModified = <<AuthTs>>

Extracted == "extractCodeBlocks" \in calls

\* the 300 characters before fence j hold a whole label line
LabelInWindow(resp, j) ==
  \E i \in 1..(j - 1) :
    resp[i].kind = "label" /\ BlockIndex(resp, j) - BlockIndex(resp, i) <= 300

\* the text before fence j ends with a backtick-quoted path
TickBefore(resp, j) == j > 1 /\ resp[j - 1].kind = "tick"

\* block b was cut from fence j of the response
CutFrom(b, resp, j) ==
  resp[j].kind = "fence" /\ resp[j].text = b.code /\ resp[j].lang = b.language

\* C10 (as claimed): a fenced block with no label line in the 300 characters
\* before it is dropped: every block extractCodeBlocks returns has one.
C10_UnlabelledBlockDropped ==
  Extracted =>
    \A k \in 1..Len(blocks) :
      \E j \in 1..Len(response) : CutFrom(blocks[k], response, j) /\ LabelInWindow(response, j)

\* C10 (amended): a fenced block is dropped when the 300 characters before it hold
\* no label line and do not end with a backtick-quoted path either: every block
\* extractCodeBlocks returns has one of the two.
C10_UnnamedBlockDropped ==
  Extracted =>
    \A k \in 1..Len(blocks) :
      \E j \in 1..Len(response) :
        /\ CutFrom(blocks[k], response, j)
        /\ LabelInWindow(response, j) \/ TickBefore(response, j)

C10_Witness ==
  /\ Extracted
  /\ blocks = <<>>
  /\ \E j \in 1..Len(response) :
       /\ response[j].kind = "fence"
       /\ TextAttr(response[j].text).len >= 200
       /\ response[j].lang = "typescript"
       /\ validateCode(response[j].text, response[j].lang).isValid
       /\ \E i \in 1..(j - 1) : response[i].kind = "label" /\ response[i].path = AuthTs
       /\ ~LabelInWindow(response, j)
       /\ ~TickBefore(response, j)

\* tokens j and j+1 of the response are the `## Code` part of the prompt's template:
\* a label line naming a path with an allow-listed extension, immediately followed
\* by a language-tagged fence of at least 200 characters
FollowsTemplate(resp, j) ==
  /\ j + 1 <= Len(resp)
  /\ resp[j].kind = "label"
  /\ ToLower(resp[j].path.ext) \in validExts
  /\ resp[j + 1].kind = "fence"
  /\ resp[j + 1].lang # ""
  /\ TextAttr(resp[j + 1].text).len >= MIN_CODE_LENGTH

\* C11: for a response that follows the template of buildPrompt (a label line
\* immediately followed by a language-tagged fence of at least 200 characters, the
\* path having an allow-listed extension; the code not being one of the command
\* examples the structural filter rejects), extractCodeBlocks returns that block
\* with the labelled path.
C11_TemplateBlockExtracted ==
  Extracted =>
    \A j \in 1..Len(response) :
      FollowsTemplate(response, j) /\ ~isCommandExample(response[j + 1].text) =>
        \E k \in 1..Len(blocks) :
          /\ CutFrom(blocks[k], response, j + 1)
          /\ blocks[k].path = response[j].path

Scanned == ret.fn = "scanProject"

\* C12: after scanProject the file list holds at most MAX_SCAN_FILES entries,
\* whatever the shape of the tree.
C12_AtMostMaxScanFiles == Scanned => Len(ret.files) <= MAX_SCAN_FILES

\* C13: scanProject never collects a file of a directory nested more than
\* MAX_SCAN_DEPTH levels below the scan root, and the recursion ends: no call of
\* scanDirectory is made more than one level beyond MAX_SCAN_DEPTH, also in a
\* project whose directories loop.
C13_DepthBoundedAndTerminates ==
  Scanned =>
    /\ \A f \in 1..Len(ret.files) : ret.files[f].depth <= MAX_SCAN_DEPTH
    /\ ret.deepest <= MAX_SCAN_DEPTH + 1

\* a project of six levels or more, or one that loops, was scanned down to the limit
C13_Witness ==
  /\ Scanned
  /\ Len(arg.levels) > MAX_SCAN_DEPTH + 1 \/ arg.loop
  /\ ret.deepest = MAX_SCAN_DEPTH + 1
  /\ \E f \in 1..Len(ret.files) : ret.files[f].depth = MAX_SCAN_DEPTH

\* C14: if trackTokenUsage throws after a successful AI call, executeWithAI still
\* returns the response and the command goes on to display it and to ask for the
\* confirmation; no error is reported.
C14_TrackingFailureDoesNotFailCommand ==
  (pc = "returned" /\ "trackRejected" \in calls) =>
    /\ "displayResponse" \in calls
    /\ prompts = 1
    /\ ~reported

\* handler h has been started and has not reached rl.prompt()
InFlight(h) == handlers[h].pc # "prompted"

\* C15: at most one command is in flight: handleCommand for a new line does not
\* start while an earlier handleCommand has not finished.
C15_OneCommandInFlight ==
  ~closed => Cardinality({h \in 1..Len(handlers) : InFlight(h)}) <= 1

\* handler h was started by a line other than exit
StartedCommand(h) == h <= Len(handlers) /\ handlers[h].line # "exit"

\* handler h has given control back to the terminal prompt
BackAtPrompt(h) == h <= Len(handlers) /\ handlers[h].pc = "prompted"

Answered == prompts = 1 /\ pc \in {"apply", "returned"}

\* C17 (as claimed): requestConfirmation returns true for y, yes and s in any
\* letter case and false for every other answer, the empty line included; a false
\* result leads to no write.
C17_TrueForYYesS ==
  Answered =>
    /\ confirmed <=> ToLower(answer) \in {"y", "yes", "s"}
    /\ ~confirmed => writes = <<>>

\* C17 (amended): requestConfirmation returns true exactly for y and s in any
\* letter case; every other answer, yes and the empty line included, gives false,
\* and a false result leads to no write.
C17_TrueForYAndSOnly ==
  Answered =>
    /\ confirmed <=> ToLower(answer) \in {"y", "s"}
    /\ ~confirmed => writes = <<>> /\ files = InitFiles /\ pc = "returned"

\* the answer `yes` was given to a response that holds a block, and nothing is written
C17_Witness ==
  /\ Answered
  /\ answer = "yes"
  /\ ~confirmed
  /\ extractCodeBlocks(response) # <<>>
  /\ writes = <<>>

\* the history entry of the n-th trackTokenUsage call
EntryOfCall(n) ==
  [tokens |-> TokensOfCall(n), cost |-> Cost(TokensOfCall(n)), command |-> "ultra-agent"]

\* C18: after any sequence of trackTokenUsage calls, tokenUsage.history holds at
\* most 100 entries, and they are exactly the most recent calls, in call order.
C18_HistoryIsLastHundredCalls ==
  LET kept == Min(trackCalls.sinceReset, HISTORY_LIMIT)
  IN  /\ Len(rcFile.history) <= HISTORY_LIMIT
      /\ rcFile.history = [i \in 1..kept |-> EntryOfCall(trackCalls.total - kept + i)]

\* more than 100 calls were made: the oldest entries are gone
C18_Witness ==
  /\ trackCalls.sinceReset > HISTORY_LIMIT + 1
  /\ Len(rcFile.history) = HISTORY_LIMIT
  /\ rcFile.history[1] = EntryOfCall(trackCalls.total - HISTORY_LIMIT + 1)

Validated == ret.fn = "validateCode"

\* s is one of the messages of the list
Includes(list, s) == \E i \in 1..Len(list) : list[i] = s

\* C19: validateCode on a TypeScript code whose counts of `{` and `}` differ
\* returns isValid = false and isComplete = false with an "unbalanced" message
\* among the errors; the same holds for `(` and `)`.
C19_UnbalancedIsInvalid ==
  (Validated /\ arg.language = "typescript") =>
    /\ arg.code.openBraces # arg.code.closeBraces =>
         /\ ~ret.result.isValid
         /\ ~ret.result.isComplete
         /\ Includes(ret.result.errors, "Unbalanced braces")
    /\ arg.code.openParens # arg.code.closeParens =>
         /\ ~ret.result.isValid
         /\ ~ret.result.isComplete
         /\ Includes(ret.result.errors, "Unbalanced parentheses")

\* three `{` and two `}`, parentheses balanced: one error
C19_Witness ==
  /\ Validated
  /\ arg.language = "typescript"
  /\ arg.code.openBraces = 3 /\ arg.code.closeBraces = 2
  /\ arg.code.openParens = arg.code.closeParens
  /\ ~arg.code.openComment
  /\ ret.result.errors = <<"Unbalanced braces">>
  /\ ~ret.result.isValid

Analyzed == ret.fn = "analyzeIntent"

\* the number of flags of the returned intent that are true
TrueFlags == Cardinality({a \in ActionNames : ret.intent.actions[a]})

\* C20: analyzeIntent returns an intent for every command; each of the seven flags
\* is true exactly when a word of the command matches its own pattern; the
\* confidence (in thirds) is min(1, k/3) for k true flags, so it is 0 with all flags
\* false when no keyword is recognised, and lies in [0, 1].
C20_FlagsAndConfidence ==
  Analyzed =>
    /\ DOMAIN ret.intent.actions = ActionNames
    /\ \A a \in ActionNames :
         ret.intent.actions[a] <=> \E w \in arg.words : a \in PatternsIn(w)
    /\ ret.intent.confidence = (IF TrueFlags >= 3 THEN 3 ELSE TrueFlags)
    /\ ret.intent.confidence \in 0..3
    /\ (\A w \in arg.words : PatternsIn(w) = {}) =>
         /\ \A a \in ActionNames : ~ret.intent.actions[a]
         /\ ret.intent.confidence = 0

\* four flags are true at once and the confidence is capped at 1
C20_Witness ==
  /\ Analyzed
  /\ TrueFlags = 4
  /\ ret.intent.actions["debug"] /\ ret.intent.actions["test"]
  /\ ret.intent.confidence = 3

\* the directory of level i is reached and listed by the scan: it is within
\* MAX_SCAN_DEPTH, no directory on the way to it is ignored, and it and the
\* directories above it can be listed
Reached(project, i) ==
  /\ i - 1 <= MAX_SCAN_DEPTH
  /\ \A j \in 1..(i - 1) : ~shouldIgnoreItem(project.levels[j].sub)
  /\ \A j \in 1..i : ~CannotList(project, j)

\* the files of level i the scan has to collect
Collectable(project, i) ==
  IF Reached(project, i) /\ isRelevantFile(project.levels[i].ext)
  THEN project.levels[i].n ELSE 0

RECURSIVE CollectableUpTo(_, _)
CollectableUpTo(project, i) ==
  IF i = 0 THEN 0 ELSE CollectableUpTo(project, i - 1) + Collectable(project, i)

\* the files of level i the scan collected
CollectedAt(i) == Cardinality({f \in 1..Len(ret.files) : ret.files[f].level = i})

\* C21: scanProject writes nothing and never aborts on an I/O error: an entry that
\* cannot be stat'ed and a directory that cannot be listed are skipped, and every
\* other readable entry of the tree, while the file cap is not in the way, is
\* collected.
C21_ScanSkipsErrors ==
  Scanned =>
    /\ files = InitFiles /\ dirs = InitDirs
    /\ CollectableUpTo(arg, Len(arg.levels)) <= MAX_SCAN_FILES =>
         \A i \in 1..Len(arg.levels) : CollectedAt(i) = Collectable(arg, i)

\* the root holds an entry that cannot be stat'ed, the second directory cannot be
\* listed, package.json cannot be parsed: the files of the root are collected
C21_Witness ==
  /\ Scanned
  /\ arg.broken = 1 /\ arg.unreadable = 2 /\ arg.pkg = "corrupt"
  /\ Len(arg.levels) = 3
  /\ arg.levels[1].first = "dir"
  /\ Len(ret.files) = 1

KeyShown == ret.fn = "showKey"

\* C22: wherever the API key is shown or logged, the output is the mask followed
\* by no more than the last 4 characters of the key, and never by the complete
\* key, whatever its length.
C22_KeyNeverShownWhole ==
  KeyShown =>
    /\ ret.out.mask = "****"
    /\ Len(ret.out.tail) <= SHOWN_CHARS
    /\ ret.out.tail = Slice(arg.key, Len(ret.out.tail))
    /\ ret.out.tail # arg.key


\* a trackTokenUsage call writes the file in this step
TrackWrites ==
  \E c \in 1..Len(tracking) :
    /\ tracking[c].kind = "track"
    /\ tracking[c].pc = "loaded"
    /\ tracking'[c].pc = "saved"
    /\ tracking' = [tracking EXCEPT ![c].pc = "saved"]

\* C23: trackTokenUsage changes only the tokenUsage field of
\* .vibecoderc.json: the apiKey, provider and model of the file are the same
\* before and after the call, so a key that comes from the environment
\* only is never written to the file.
C23_TrackChangesOnlyTokenUsage ==
  [][TrackWrites =>
       /\ cfgFile'.apiKey = cfgFile.apiKey
       /\ cfgFile'.provider = cfgFile.provider
       /\ cfgFile'.model = cfgFile.model]_vars

\* C25: no token-usage update is lost: totalTokens in the file is the sum of
\* the tokens of the trackTokenUsage calls completed since the last
\* resetTokenUsage, also when calls overlap between their load and their
\* save.
C25_NoUpdateLost == cfgFile.usage.totalTokens = completed


\* the line typed in this step answers a confirmation question
QuestionAnswered ==
  \E h \in 1..Len(handlers) :
    /\ handlers[h].pc = "question"
    /\ handlers'[h].answer # NoAnswer

\* C24: a line typed in answer to the confirmation prompt is consumed by that
\* prompt only: it is not appended to the command history and no handleCommand
\* is started for it.
C24_AnswerConsumedByPromptOnly ==
  [][QuestionAnswered => /\ history' = history
                         /\ Len(handlers') = Len(handlers)]_vars


\* the fences of a response
Fences(resp) == { i \in 1..Len(resp) : resp[i].kind = "fence" }

\* the response holds one code block, and no path label precedes it
OnlyBlockUnlabelled ==
  /\ Cardinality(Fences(response)) = 1
  /\ \A i \in Fences(response) : extractPathBeforeBlock(response, i) = NoPath

\* C26: every block passed to executeFileOperations has a path, so the
\* fallback to intent.targetFile and the 'No file path specified' error are
\* never exercised: every write goes to the path of its own block, and a
\* response whose only code block has no path label leads to no write, also
\* when the command names a target file.
C26_EveryBlockHasPath ==
  /\ \A k \in 1..Len(blocks) : blocks[k].path # NoPath
  /\ \A k \in 1..Len(attempts) : attempts[k] # "nopath"
  /\ \A w \in 1..Len(writes) : writes[w].path = blocks[writes[w].block].path
  /\ OnlyBlockUnlabelled => writes = <<>>

\* the command names auth.ts, the lone block is a valid fence without a label,
\* the user has confirmed, and nothing was written
C26_Witness ==
  /\ pc = "returned"
  /\ confirmed
  /\ "extractCodeBlocks" \in calls
  /\ intent.targetFile # NoPath
  /\ OnlyBlockUnlabelled
  /\ \E i \in Fences(response) : PassesStructuralFilter(response[i])
  /\ blocks = <<>>
  /\ writes = <<>>


\* C27: validateCode runs its checks only for the tags typescript,
\* javascript, tsx and jsx: for these an imbalance is an error; for every
\* other tag, ts and js included, it returns isValid and isComplete with no
\* error and no warning whatever the code, so executeFileOperations does not
\* skip the block and prints no diagnostic for it.
C27_OtherTagsAreNotChecked ==
  Validated =>
    IF arg.language \in {"typescript", "javascript", "tsx", "jsx"}
    THEN (arg.code.openBraces # arg.code.closeBraces
            \/ arg.code.openParens # arg.code.closeParens)
           => ~ret.result.isValid /\ ret.result.errors # <<>>
    ELSE /\ ret.result.isValid
         /\ ret.result.isComplete
         /\ ret.result.errors = <<>>
         /\ ret.result.warnings = <<>>
         /\ ~SkipsBlock(ret.result)

\* a block fenced as ts with three `{` and two `}` and an open comment passes
C27_Witness ==
  /\ Validated
  /\ arg.language = "ts"
  /\ arg.code.openBraces = 3 /\ arg.code.closeBraces = 2
  /\ arg.code.openComment
  /\ ret.result.isValid
  /\ ret.result.isComplete
  /\ ret.result.errors = <<>>


\* the number of entries of the execution result
Accounted == Len(result.filesCreated) + Len(result.filesModified) + Len(result.errors)

\* no element occurs twice in the list
NoDuplicates(list) ==
  \A i, j \in 1..Len(list) : list[i] = list[j] => i = j

\* C28: executeFileOperations accounts for every block exactly once: after
\* k blocks |filesCreated| + |filesModified| + |errors| = k, and the number of
\* blocks when the loop is over; success = false implies errors is not empty;
\* no path is appended to filesCreated twice in one run.
C28_EveryBlockAccountedOnce ==
  /\ pc = "apply" => Accounted = next - 1
  /\ (pc = "returned" /\ "displayExecutionSummary" \in calls) =>
       Accounted = Len(blocks)
  /\ ~result.success => result.errors # <<>>
  /\ NoDuplicates(result.filesCreated)

\* two blocks for the same new path: the first write fails, the second
\* creates the file
C28_Witness ==
  /\ pc = "returned"
  /\ "displayExecutionSummary" \in calls
  /\ Len(blocks) = 2
  /\ blocks[1].path = blocks[2].path
  /\ ~result.success
  /\ Len(result.errors) = 1
  /\ Len(result.filesCreated) = 1


\* C29: while the confirmation prompt waits for the answer no spinner
\* interval is active (the one of the last stage was cleared before
\* requestConfirmation was called), and none is left when the command has ended.
C29_NoSpinnerDuringPrompt ==
  /\ pc = "question" => ~progress.interval
  /\ pc = "returned" => ~progress.interval

=============================================================================
